---- MODULE Spec2Model ----
(***************************************************************************)
(* A model of brainsprite_widget: the sprite tiler (_data2sprite), the     *)
(* sprite writer (save_sprite), the stat-map compositor (view_stat_map)    *)
(* and the Point3D trait validator (Point3D.validate).                     *)
(*                                                                         *)
(* Numbers.  A float is a record [k, v]: k = "num" with v the value in     *)
(* units of 1e-5 (the epsilon of the automatic threshold), or k = "nan".   *)
(* An absent argument (Python's None) is the record with k = "none".       *)
(* Arrays.   An array is a record [shape, v]: v maps every index tuple of  *)
(* the shape (0-based, as in numpy) to a float.                            *)
(* Images.   A Niimg is a record [nd, nt, affine, arr]: nd its number of   *)
(* dimensions, nt its extent along the 4th axis, affine a 4x4 matrix, arr  *)
(* its 3D array (of the first volume).                                     *)
(* The colormap, the image format and the interpolation mode are handed to *)
(* matplotlib and nilearn unchanged and are left out; interpolation is     *)
(* nearest-neighbour, the default.  Affines are diagonal with zero origin. *)
(***************************************************************************)
EXTENDS Integers, Sequences, FiniteSets, TLC

VARIABLES
    entry,          \* which entry point this run calls
    input_dims,     \* <<ndim, 4th extent>> of the volume the caller passed, as passed
    pc,             \* position in the running function
    ret,            \* where save_sprite returns to: "top", "vs_bg", "vs_stat"
    result,         \* "none" while running, then "ok" or "error"
    events,         \* the effects so far, in order
    tiled,          \* the grids [shape, affine] handed to _data2sprite, in order
    \* ---- _data2sprite / save_sprite locals
    data, sprite, xx,
    \* ---- save_sprite frame
    img, resample, vmin, vmax, threshold, output_json, output_cmap,
    mask, warned, sinks, handle,
    \* ---- view_stat_map frame
    stat_map_img, bg_img, bg_min, bg_max, black_bg, colorbar,
    v_vmin, v_vmax, v_threshold,
    \* ---- Point3D.validate
    value

vars == <<entry, input_dims, pc, ret, result, events, tiled, data, sprite, xx,
          img, resample, vmin, vmax, threshold, output_json, output_cmap,
          mask, warned, sinks, handle,
          stat_map_img, bg_img, bg_min, bg_max, black_bg, colorbar,
          v_vmin, v_vmax, v_threshold, value>>

d2sVars  == <<data, sprite, xx>>
ssVars   == <<img, resample, vmin, vmax, threshold, output_json, output_cmap,
              mask, warned, sinks, handle>>
vsVars   == <<stat_map_img, bg_img, bg_min, bg_max, black_bg, colorbar,
              v_vmin, v_vmax, v_threshold>>

----------------------------------------------------------------------------
(* Bounds of the model *)

\* extents of the arrays handed directly to _data2sprite
MaxNx == 5
MaxNy == 2
MaxNz == 2
\* voxel intensities range over -MaxVal..MaxVal (whole units)
MaxVal == 2
\* images handed to save_sprite with arbitrary data hold at most this many voxels
MaxVoxels == 2

----------------------------------------------------------------------------
(* Floats *)

\* 1.0 in units of the epsilon 1e-5 that 'auto' subtracts
Unit == 100000

Num(n) == [k |-> "num", v |-> n]
NaN    == [k |-> "nan", v |-> 0]
None   == [k |-> "none", v |-> 0]

IsNum(f)  == f.k = "num"
isnan(f)  == f.k = "nan"
IsNone(f) == f.k = "none"

Abs(n) == IF n < 0 THEN -n ELSE n
Min2(a, b) == IF a <= b THEN a ELSE b
Max2(a, b) == IF a >= b THEN a ELSE b
SetMin(S) == CHOOSE m \in S : \A n \in S : m <= n
SetMax(S) == CHOOSE m \in S : \A n \in S : m >= n

CeilDiv(a, b) == (a + b - 1) \div b

\* int(np.ceil(np.sqrt(n))) for n >= 1
CeilSqrt(n) == CHOOSE r \in 1..n : r * r >= n /\ (r - 1) * (r - 1) < n

----------------------------------------------------------------------------
(* Arrays *)

Idx2(s) == (0..(s[1] - 1)) \X (0..(s[2] - 1))
Idx3(s) == (0..(s[1] - 1)) \X (0..(s[2] - 1)) \X (0..(s[3] - 1))

NoArray == [shape |-> <<0, 0, 0>>, v |-> <<>>]
NoSprite == [shape |-> <<0, 0>>, v |-> <<>>]

\* np.zeros((h, w))
zeros(h, w) == [shape |-> <<h, w>>, v |-> [p \in Idx2(<<h, w>>) |-> Num(0)]]

\* the voxel values of an array, as a set
Values(a) == {a.v[p] : p \in DOMAIN a.v}

----------------------------------------------------------------------------
(* _data2sprite *)

nrows_of(nx) == CeilSqrt(nx)

\* a square grid instead of ceil(nx / nrows) columns
ncolumns_square(nx) == nrows_of(nx)

ncolumns_of(nx) == CeilDiv(nx, nrows_of(nx))

\* np.where(np.ones((nrows, ncolumns))): the grid positions in row-major order,
\* as the pair of index arrays (indrow, indcol), 0-based
where_ones(nrows, ncolumns) ==
    [indrow |-> [i \in 0..(nrows * ncolumns - 1) |-> i \div ncolumns],
     indcol |-> [i \in 0..(nrows * ncolumns - 1) |-> i % ncolumns]]

\* data[xx, :, :] : the (ny, nz) slice
slice_x(d, x) ==
    [shape |-> <<d.shape[2], d.shape[3]>>,
     v |-> [p \in Idx2(<<d.shape[2], d.shape[3]>>) |-> d.v[<<x, p[1], p[2]>>]]]

\* a[::-1, :] : the first axis reversed
reverse_first(a) ==
    [shape |-> a.shape,
     v |-> [p \in Idx2(a.shape) |-> a.v[<<a.shape[1] - 1 - p[1], p[2]>>]]]

\* a[:, ::-1] : the last axis reversed
reverse_last(a) ==
    [shape |-> a.shape,
     v |-> [p \in Idx2(a.shape) |-> a.v[<<p[1], a.shape[2] - 1 - p[2]>>]]]

\* a.transpose()
transpose(a) ==
    [shape |-> <<a.shape[2], a.shape[1]>>,
     v |-> [p \in Idx2(<<a.shape[2], a.shape[1]>>) |-> a.v[<<p[2], p[1]>>]]]

\* sprite[r0:r1, c0:c1] = tile
set_block(s, r0, r1, c0, c1, tile) ==
    [s EXCEPT !.v = [p \in DOMAIN s.v |->
        IF r0 <= p[1] /\ p[1] < r1 /\ c0 <= p[2] /\ p[2] < c1
        THEN tile.v[<<p[1] - r0, p[2] - c0>>]
        ELSE s.v[p]]]

\* one iteration of the loop over xx
tile_assign(s, d, x) ==
    LET nx == d.shape[1]
        ny == d.shape[2]
        nz == d.shape[3]
        ind == where_ones(nrows_of(nx), ncolumns_of(nx))
        r == ind.indrow[x]
        c == ind.indcol[x]
    IN set_block(s, r * nz, (r + 1) * nz, c * ny, (c + 1) * ny,
                 transpose(reverse_last(slice_x(d, x))))

\* the sprite before the loop
sprite_alloc(d) ==
    zeros(nrows_of(d.shape[1]) * d.shape[3], ncolumns_of(d.shape[1]) * d.shape[2])

RECURSIVE tile_loop(_, _, _)
tile_loop(s, d, x) ==
    IF x >= d.shape[1] THEN s ELSE tile_loop(tile_assign(s, d, x), d, x + 1)

\* the whole function, for its callers
data2sprite(d) == tile_loop(sprite_alloc(d), d, 0)

----------------------------------------------------------------------------
(* Images and the nilearn operations save_sprite and view_stat_map call *)

Affine(a, b, c) == << <<a, 0, 0, 0>>, <<0, b, 0, 0>>, <<0, 0, c, 0>>, <<0, 0, 0, 1>> >>
NoImg == [nd |-> 0, nt |-> 0, affine |-> Affine(1, 1, 1), arr |-> NoArray]

\* the grid of an image: what pixel alignment compares
Grid(i) == [shape |-> i.arr.shape, affine |-> i.affine]

\* check_niimg_3d accepting whatever has an array
reducible_any(i) == i.nd >= 1

\* check_niimg_3d succeeds: a 3D image, or a 4D image with one volume
reducible_3d(i) == i.nd = 3 \/ (i.nd = 4 /\ i.nt = 1)

\* what check_niimg_3d returns when it succeeds: the image squeezed to 3D
check_niimg_3d(i) == [i EXCEPT !.nd = 3, !.nt = 1]

\* the singular values of affine[0:3, 0:3]; the model's affines are diagonal
singular_values(A) == {Abs(A[1][1]), Abs(A[2][2]), Abs(A[3][3])}

\* nearest-neighbour index on a source axis of n voxels of size svox for
\* target index j of voxel size tvox; n when it falls outside the source
nearest(j, tvox, svox, n) ==
    LET q == (2 * j * tvox + svox) \div (2 * svox) IN IF q < n THEN q ELSE n

\* image.resample_img / resample_to_img onto the grid (shape tshape, affine T),
\* nearest-neighbour, zero outside the source's field of view
resample_onto(i, tshape, T) ==
    LET A == i.affine
        n == i.arr.shape
        src(p) == <<nearest(p[1], T[1][1], A[1][1], n[1]),
                    nearest(p[2], T[2][2], A[2][2], n[2]),
                    nearest(p[3], T[3][3], A[3][3], n[3])>>
    IN [nd |-> 3, nt |-> 1, affine |-> T,
        arr |-> [shape |-> tshape,
                 v |-> [p \in Idx3(tshape) |->
                          IF src(p) \in DOMAIN i.arr.v THEN i.arr.v[src(p)] ELSE Num(0)]]]

\* _resample_to_self: isotropic voxels of the smallest singular value; the
\* target shape is resample_img's bounding box of the image at that voxel size
resample_to_self(i) ==
    LET vsize == SetMin(singular_values(i.affine))
        n == i.arr.shape
        A == i.affine
        tshape == <<CeilDiv((n[1] - 1) * Abs(A[1][1]), vsize) + 1,
                    CeilDiv((n[2] - 1) * Abs(A[2][2]), vsize) + 1,
                    CeilDiv((n[3] - 1) * Abs(A[3][3]), vsize) + 1>>
    IN resample_onto(i, tshape, Affine(vsize, vsize, vsize))

\* _safe_get_data(img, ensure_finite=True): non-finite voxels become zero
safe_get_data(i) ==
    [i.arr EXCEPT !.v = [p \in DOMAIN i.arr.v |->
        IF isnan(i.arr.v[p]) THEN Num(0) ELSE i.arr.v[p]]]

\* np.isnan(np.sum(data))
sum_is_nan(d) == \E p \in DOMAIN d.v : isnan(d.v[p])

\* np.nan_to_num(data)
nan_to_num(d) == [d EXCEPT !.v = [p \in DOMAIN d.v |-> IF isnan(d.v[p]) THEN Num(0) ELSE d.v[p]]]

\* np.nanmin(data), np.nanmax(data): NaN only when every voxel is NaN
Finite(d) == {d.v[p].v : p \in {q \in DOMAIN d.v : IsNum(d.v[q])}}
nanmin(d) == IF Finite(d) = {} THEN NaN ELSE Num(SetMin(Finite(d)))
nanmax(d) == IF Finite(d) = {} THEN NaN ELSE Num(SetMax(Finite(d)))

\* fast_abs_percentile(data): the absolute value at index int(size * .01 * 80)
\* of the sorted absolute values
fast_abs_percentile(d) ==
    LET index == (Cardinality(DOMAIN d.v) * 80) \div 100
        absval(p) == Abs(d.v[p].v)
        below(a) == Cardinality({p \in DOMAIN d.v : absval(p) < a})
        upto(a) == Cardinality({p \in DOMAIN d.v : absval(p) <= a})
    IN CHOOSE a \in {absval(p) : p \in DOMAIN d.v} : below(a) <= index /\ index < upto(a)

Auto == [k |-> "auto", v |-> 0]

\* lines 119-125: the threshold as a float, or None
resolve_threshold(t, d) ==
    IF t.k = "auto" THEN Num(fast_abs_percentile(d) - 1) ELSE t

\* np.ma.masked_equal(sprite, 0): the mask
masked_equal(s, x) == [shape |-> s.shape, v |-> [p \in DOMAIN s.v |-> s.v[p].v = x]]

\* a masked_inside that leaves the bounds out
masked_inside_open(s, v1, v2) ==
    LET lo == Min2(v1, v2)
        hi == Max2(v1, v2)
    IN [shape |-> s.shape, v |-> [p \in DOMAIN s.v |-> lo < s.v[p].v /\ s.v[p].v < hi]]

\* np.ma.masked_inside(sprite, v1, v2): the bounds in either order, both included
masked_inside(s, v1, v2) ==
    LET lo == Min2(v1, v2)
        hi == Max2(v1, v2)
    IN [shape |-> s.shape, v |-> [p \in DOMAIN s.v |-> lo <= s.v[p].v /\ s.v[p].v <= hi]]

\* an array that is no masked array: nothing masked
nomask(s) == [shape |-> s.shape, v |-> [p \in DOMAIN s.v |-> FALSE]]

\* lines 148-154
mask_sprite(s, t) ==
    IF IsNone(t) THEN nomask(s)
    ELSE IF t.v = 0 THEN masked_equal(s, 0)
    ELSE masked_inside(s, -t.v, t.v)

\* the metadata with min and max exchanged
params_swapped(d, i, lo, hi) ==
    [nbSlice |-> [X |-> d.shape[1], Y |-> d.shape[2], Z |-> d.shape[3]],
     min |-> hi, max |-> lo, affine |-> i.affine]

\* lines 165-174
params(d, i, lo, hi) ==
    [nbSlice |-> [X |-> d.shape[1], Y |-> d.shape[2], Z |-> d.shape[3]],
     min |-> lo, max |-> hi, affine |-> i.affine]

\* the default of n_colors
n_colors == 256

\* lines 184-185: np.arange(0, n_colors) / (n_colors - 1), as a (1, n_colors) array
colormap_strip ==
    [shape |-> <<1, n_colors>>,
     v |-> [p \in Idx2(<<1, n_colors>>) |-> Num((p[2] * Unit) \div (n_colors - 1))]]

----------------------------------------------------------------------------
(* Point3D.validate *)

\* Keys a dict may hold: 'x', 'y', 'z', another string 'w', a key equal to True
\* (True, 1 or 1.0 hash and compare alike) and a key equal to False (False, 0, 0.0)
Keys == {"x", "y", "z", "w", "True", "False"}
\* what a key maps to: an int, a bool (a subclass of int), a str
Kinds == {"int", "bool", "str"}

isinstance_int(kind) == kind \in {"int", "bool"}

\* `b in value` for a bool b: is a key equal to b in the dict?
bool_in(b, d) == IF b THEN "True" \in DOMAIN d ELSE "False" \in DOMAIN d

\* the condition of the inner if
point3d_ok(d) ==
    /\ \A a \in {"x", "y", "z"} : a \in DOMAIN d
    /\ \A a \in {"x", "y", "z"} : bool_in(isinstance_int(d[a]), d)

NoValue == [isdict |-> FALSE, d |-> [a \in {} |-> "int"]]

----------------------------------------------------------------------------
(* Inputs *)

Shapes3(mx, my, mz) == (1..mx) \X (1..my) \X (1..mz)

\* row-major linear index of a voxel
Linear(s, p) == (p[1] * s[2] + p[2]) * s[3] + p[3]

\* the array whose voxel (x,y,z) holds base + its linear index: all voxels differ
Coded(s, base) == [shape |-> s, v |-> [p \in Idx3(s) |-> Num(Unit * (base + Linear(s, p)))]]

TilerArrays == {Coded(s, b) : s \in Shapes3(MaxNx, MaxNy, MaxNz), b \in {0, 1}}

\* dicts over a subset of Keys, and one value that is no dict
Dicts == UNION {[K -> Kinds] : K \in SUBSET Keys}
ValidateInputs == {[isdict |-> TRUE, d |-> d] : d \in Dicts} \cup {NoValue}

NoBg == [kind |-> "None", img |-> NoImg]

\* what a voxel of an input image may hold
RawVals == {NaN} \cup {Num(Unit * k) : k \in (-MaxVal)..MaxVal}

\* 3D images of at most MaxVoxels voxels, unit voxel size, any data
ArbShapes == {s \in Shapes3(MaxVoxels, MaxVoxels, MaxVoxels) : s[1] * s[2] * s[3] <= MaxVoxels}
ArbImgs ==
    UNION {{[nd |-> 3, nt |-> 1, affine |-> Affine(1, 1, 1), arr |-> [shape |-> s, v |-> f]] :
              f \in [Idx3(s) -> RawVals]} : s \in ArbShapes}

\* images of several shapes, voxel sizes and dimensionalities
GeoShapes == {<<1, 1, 1>>, <<2, 1, 1>>, <<3, 1, 2>>, <<2, 2, 1>>}
GeoAffines == {Affine(1, 1, 1), Affine(2, 1, 1), Affine(2, 2, 2), Affine(1, 2, 3)}
GeoDims == {<<3, 1>>, <<4, 1>>, <<4, 2>>, <<2, 1>>}
GeoImgs ==
    {[nd |-> d[1], nt |-> d[2], affine |-> A, arr |-> Coded(s, 1)] :
        d \in GeoDims, A \in GeoAffines, s \in GeoShapes}

Thresholds == {None, Auto} \cup {Num(Unit * k) : k \in (-1)..MaxVal}
Ranges == {None, NaN, Num(-Unit), Num(Unit)}

\* the template _MNI152Template() loads: isotropic 2 mm voxels
MNI152Template == [nd |-> 3, nt |-> 1, affine |-> Affine(2, 2, 2), arr |-> Coded(<<2, 1, 2>>, 1)]

BgImgs ==
    {[nd |-> 3, nt |-> 1, affine |-> Affine(1, 1, 1), arr |-> Coded(<<2, 1, 1>>, 0)],
     [nd |-> 3, nt |-> 1, affine |-> Affine(2, 1, 1), arr |-> Coded(<<2, 2, 1>>, 2)],
     [nd |-> 4, nt |-> 2, affine |-> Affine(1, 1, 1), arr |-> Coded(<<1, 1, 1>>, 1)]}
BgArgs ==
    {[kind |-> k, img |-> NoImg] : k \in {"MNI152", "None", "False"}}
    \cup {[kind |-> "img", img |-> b] : b \in BgImgs}

----------------------------------------------------------------------------
(* Initial states: one call of one entry point, with its arguments *)

CommonInit == ret = "top" /\ result = "none" /\ events = <<>> /\ tiled = <<>>

D2SIdle == data = NoArray /\ sprite = NoSprite /\ xx = 0

SSIdle ==
    /\ img = NoImg /\ resample = FALSE /\ vmin = None /\ vmax = None
    /\ threshold = None /\ output_json = "None" /\ output_cmap = "None"

SSLocals ==
    /\ mask = NoSprite /\ warned = FALSE
    /\ sinks = [sprite |-> <<>>, json |-> <<>>, cmap |-> <<>>]
    /\ handle = "none"

VSIdle ==
    /\ stat_map_img = NoImg /\ bg_img = NoBg /\ bg_min = None /\ bg_max = None
    /\ black_bg = FALSE /\ colorbar = FALSE
    /\ v_vmin = None /\ v_vmax = None /\ v_threshold = None

InitData2Sprite ==
    /\ entry = "data2sprite" /\ pc = "d2s_start"
    /\ CommonInit /\ SSIdle /\ SSLocals /\ VSIdle /\ value = NoValue
    /\ data \in TilerArrays /\ sprite = NoSprite /\ xx = 0
    /\ input_dims = <<3, 1>>

InitValidate ==
    /\ entry = "validate" /\ pc = "val_start"
    /\ CommonInit /\ D2SIdle /\ SSIdle /\ SSLocals /\ VSIdle
    /\ value \in ValidateInputs
    /\ input_dims = <<0, 0>>

\* save_sprite called with: any data, any threshold and any vmin, vmax; or any
\* geometry, with resampling and the optional outputs
InitSaveSprite ==
    /\ entry = "save_sprite" /\ pc = "ss_check"
    /\ CommonInit /\ D2SIdle /\ SSLocals /\ VSIdle /\ value = NoValue
    /\ \/ /\ img \in ArbImgs /\ threshold \in Thresholds
          /\ vmin \in Ranges /\ vmax \in Ranges
          /\ resample = FALSE /\ output_json = "sink" /\ output_cmap = "None"
       \/ /\ img \in GeoImgs /\ threshold \in {None, Num(0)}
          /\ vmin \in {None, NaN} /\ vmax = None
          /\ resample \in BOOLEAN
          /\ output_json \in {"None", "path", "sink"}
          /\ output_cmap \in {"None", "sink"}
    /\ input_dims = <<img.nd, img.nt>>

InitViewStatMap ==
    /\ entry = "view_stat_map" /\ pc = "vs_check"
    /\ CommonInit /\ D2SIdle /\ SSIdle /\ SSLocals /\ value = NoValue
    /\ stat_map_img \in GeoImgs
    /\ input_dims = <<stat_map_img.nd, stat_map_img.nt>>
    /\ bg_img \in BgArgs
    /\ bg_min = None /\ bg_max = None /\ black_bg = FALSE
    /\ colorbar \in BOOLEAN
    /\ v_vmin = None /\ v_vmax = None
    /\ v_threshold \in {None, Num(2 * Unit)}

----------------------------------------------------------------------------
(* _data2sprite, called directly: lines 33-46 *)

d2s_alloc ==
    /\ pc = "d2s_start"
    /\ sprite' = sprite_alloc(data)
    /\ xx' = 0
    /\ pc' = "d2s_loop"
    /\ UNCHANGED <<entry, input_dims, ret, result, events, tiled, data, ssVars, vsVars, value>>

d2s_iter ==
    /\ pc = "d2s_loop"
    /\ xx < data.shape[1]
    /\ sprite' = tile_assign(sprite, data, xx)
    /\ xx' = xx + 1
    /\ UNCHANGED <<entry, input_dims, pc, ret, result, events, tiled, data, ssVars, vsVars, value>>

d2s_return ==
    /\ pc = "d2s_loop"
    /\ xx >= data.shape[1]
    /\ pc' = "done"
    /\ result' = "ok"
    /\ UNCHANGED <<entry, input_dims, ret, events, tiled, d2sVars, ssVars, vsVars, value>>

----------------------------------------------------------------------------
(* Point3D.validate: traits.py lines 11-16 *)

validate ==
    /\ pc = "val_start"
    /\ result' = IF value.isdict /\ point3d_ok(value.d) THEN "ok" ELSE "error"
    /\ pc' = "done"
    /\ UNCHANGED <<entry, input_dims, ret, events, tiled, d2sVars, ssVars, vsVars, value>>

----------------------------------------------------------------------------
(* save_sprite: lines 48-188 *)

\* an exception leaves save_sprite and, uncaught, its caller
Raise == result' = "error" /\ pc' = "done"

\* lines 129-134: was NaN passed for vmax or vmin?
show_nan_msg(lo, hi) == (~IsNone(hi) /\ isnan(hi)) \/ (~IsNone(lo) /\ isnan(lo))

\* lines 129-131 and 140-141
resolve_vmax(hi, d) == IF IsNone(hi) \/ isnan(hi) THEN nanmax(d) ELSE hi

\* a resolution that keeps a NaN the caller passed
resolve_vmin_keep_nan(lo, d) == IF IsNone(lo) THEN nanmin(d) ELSE lo

\* lines 132-134 and 142-143
resolve_vmin(lo, d) == IF IsNone(lo) \/ isnan(lo) THEN nanmin(d) ELSE lo

\* lines 104-107
ss_check ==
    /\ pc = "ss_check"
    /\ IF reducible_3d(img)
       THEN img' = check_niimg_3d(img) /\ pc' = "ss_load" /\ UNCHANGED result
       ELSE Raise /\ UNCHANGED img
    /\ UNCHANGED <<entry, input_dims, ret, events, tiled, d2sVars, resample, vmin, vmax, threshold,
                   output_json, output_cmap, mask, warned, sinks, handle, vsVars, value>>

\* the image save_sprite reads its data from: lines 109-111
ss_resampled(i, r) == IF r THEN resample_to_self(i) ELSE i

\* lines 109-116
ss_load ==
    /\ pc = "ss_load"
    /\ LET d == safe_get_data(ss_resampled(img, resample))
       IN data' = IF sum_is_nan(d) THEN nan_to_num(d) ELSE d
    /\ img' = ss_resampled(img, resample)
    /\ events' = IF resample THEN Append(events, "resample") ELSE events
    /\ pc' = "ss_params"
    /\ UNCHANGED <<entry, input_dims, ret, result, tiled, sprite, xx, resample, vmin, vmax, threshold,
                   output_json, output_cmap, mask, warned, sinks, handle, vsVars, value>>

\* lines 118-143
ss_params ==
    /\ pc = "ss_params"
    /\ threshold' = resolve_threshold(threshold, data)
    /\ warned' = show_nan_msg(vmin, vmax)
    /\ vmax' = resolve_vmax(vmax, data)
    /\ vmin' = resolve_vmin(vmin, data)
    /\ pc' = "ss_tile"
    /\ UNCHANGED <<entry, input_dims, ret, result, events, tiled, d2sVars, img, resample,
                   output_json, output_cmap, mask, sinks, handle, vsVars, value>>

\* line 146
ss_tile ==
    /\ pc = "ss_tile"
    /\ sprite' = data2sprite(data)
    /\ tiled' = Append(tiled, [shape |-> data.shape, affine |-> img.affine])
    /\ events' = Append(events, "tile")
    /\ pc' = "ss_mask"
    /\ UNCHANGED <<entry, input_dims, ret, result, data, xx, ssVars, vsVars, value>>

\* lines 148-154
ss_mask ==
    /\ pc = "ss_mask"
    /\ mask' = mask_sprite(sprite, threshold)
    /\ pc' = "ss_imsave"
    /\ UNCHANGED <<entry, input_dims, ret, result, events, tiled, d2sVars, img, resample, vmin, vmax,
                   threshold, output_json, output_cmap, warned, sinks, handle, vsVars, value>>

\* line 156
ss_imsave ==
    /\ pc = "ss_imsave"
    /\ sinks' = [sinks EXCEPT !.sprite =
                    Append(@, [arr |-> sprite, mask |-> mask, vmin |-> vmin, vmax |-> vmax])]
    /\ events' = Append(events, "encode")
    /\ pc' = "ss_json"
    /\ UNCHANGED <<entry, input_dims, ret, result, tiled, d2sVars, img, resample, vmin, vmax,
                   threshold, output_json, output_cmap, mask, warned, handle, vsVars, value>>

\* lines 158-180.  With a path, open and write may each fail; line 178 names
\* f.close and does not call it, so nothing here closes the handle.
ss_json ==
    /\ pc = "ss_json"
    /\ \/ /\ output_json = "None"
          /\ pc' = "ss_cmap"
          /\ UNCHANGED <<result, events, sinks, handle>>
       \/ /\ output_json = "sink"
          /\ sinks' = [sinks EXCEPT !.json = Append(@, params(data, img, vmin, vmax))]
          /\ events' = Append(events, "write_json")
          /\ pc' = "ss_cmap"
          /\ UNCHANGED <<result, handle>>
       \/ /\ output_json = "path"
          /\ handle' = "open"
          /\ sinks' = [sinks EXCEPT !.json = Append(@, params(data, img, vmin, vmax))]
          /\ events' = Append(events, "write_json")
          /\ pc' = "ss_cmap"
          /\ UNCHANGED result
       \/ /\ output_json = "path"
          /\ handle' = "open"
          /\ Raise
          /\ UNCHANGED <<events, sinks>>
       \/ /\ output_json = "path"
          /\ Raise
          /\ UNCHANGED <<events, sinks, handle>>
    /\ UNCHANGED <<entry, input_dims, ret, tiled, d2sVars, img, resample, vmin, vmax,
                   threshold, output_json, output_cmap, mask, warned, vsVars, value>>

\* lines 182-186
ss_cmap ==
    /\ pc = "ss_cmap"
    /\ IF output_cmap # "None"
       THEN /\ data' = colormap_strip
            /\ sinks' = [sinks EXCEPT !.cmap = Append(@, colormap_strip)]
            /\ events' = Append(events, "encode_cmap")
       ELSE UNCHANGED <<data, sinks, events>>
    /\ pc' = "ss_return"
    /\ UNCHANGED <<entry, input_dims, ret, result, tiled, sprite, xx, img, resample, vmin, vmax,
                   threshold, output_json, output_cmap, mask, warned, handle, vsVars, value>>

\* line 188.  The frame ends: a file object still open is left to the garbage
\* collector, which finalizes it at once (reference counting) or later.
ss_return ==
    /\ pc = "ss_return"
    /\ \/ UNCHANGED handle
       \/ handle = "open" /\ handle' = "collected"
    /\ pc' = CASE ret = "top" -> "done"
               [] ret = "vs_bg" -> "vs_call_stat"
               [] OTHER -> "vs_finish"
    /\ result' = IF ret = "top" THEN "ok" ELSE result
    /\ UNCHANGED <<entry, input_dims, ret, events, tiled, d2sVars, img, resample, vmin, vmax,
                   threshold, output_json, output_cmap, mask, warned, sinks, vsVars, value>>

----------------------------------------------------------------------------
(* view_stat_map: lines 191-328 *)

\* a test that takes every argument for "no background"
has_bg_never(b) == FALSE

\* line 264: is a background given?  b.kind is what the caller passed for
\* bg_img ('MNI152', None, False or an image), b.img the image bg_img names now
has_bg(b) == b.kind # "None" /\ b.kind # "False"

\* _load_anat's intensity range: the nan-safe range of the data, widened by the
\* automatic dimming on the side away from the canvas colour
anat_range(d, black) ==
    LET lo == nanmin(d).v
        hi == nanmax(d).v
    IN IF black
       THEN [vmin |-> Num(lo), vmax |-> Num((10 * (lo + hi) + 18 * (hi - lo)) \div 20)]
       ELSE [vmin |-> Num((10 * (lo + hi) - 16 * (hi - lo)) \div 20), vmax |-> Num(hi)]

\* the overlay resampled to isotropic voxels of its own instead
resample_to_img_own_grid(i, target) == resample_to_self(i)

\* image.resample_to_img(stat_map_img, bg_img): onto the background's grid
resample_to_img(i, target) == resample_onto(i, target.arr.shape, target.affine)

\* image.new_img_like(stat_map_img, np.zeros(stat_map_img.shape), stat_map_img.affine)
new_img_like_zeros(i) ==
    [nd |-> 3, nt |-> 1, affine |-> i.affine,
     arr |-> [shape |-> i.arr.shape, v |-> [p \in DOMAIN i.arr.v |-> Num(0)]]]

\* lines 256-261
vs_check ==
    /\ pc = "vs_check"
    /\ IF reducible_3d(stat_map_img)
       THEN /\ stat_map_img' = check_niimg_3d(stat_map_img)
            /\ bg_img' = IF bg_img.kind = "MNI152"
                         THEN [bg_img EXCEPT !.img = MNI152Template]
                         ELSE bg_img
            /\ pc' = IF has_bg(bg_img) THEN "vs_load_anat" ELSE "vs_nobg_resample"
            /\ UNCHANGED result
       ELSE Raise /\ UNCHANGED <<stat_map_img, bg_img>>
    /\ UNCHANGED <<entry, input_dims, ret, events, tiled, d2sVars, ssVars, bg_min, bg_max, black_bg,
                   colorbar, v_vmin, v_vmax, v_threshold, value>>

\* line 265: _load_anat checks the background, cleans its data, guesses the
\* canvas colour from the border voxels and derives the intensity range
vs_load_anat ==
    /\ pc = "vs_load_anat"
    /\ IF reducible_3d(bg_img.img)
       THEN \E black \in BOOLEAN :
               LET b == check_niimg_3d(bg_img.img)
                   d == safe_get_data(b)
               IN /\ bg_img' = [bg_img EXCEPT !.img = [b EXCEPT !.arr = d]]
                  /\ black_bg' = black
                  /\ bg_min' = anat_range(d, black).vmin
                  /\ bg_max' = anat_range(d, black).vmax
                  /\ events' = Append(events, "resolve_bg")
                  /\ pc' = "vs_resample_bg"
                  /\ UNCHANGED result
       ELSE Raise /\ UNCHANGED <<bg_img, black_bg, bg_min, bg_max, events>>
    /\ UNCHANGED <<entry, input_dims, ret, tiled, d2sVars, ssVars, stat_map_img,
                   colorbar, v_vmin, v_vmax, v_threshold, value>>

\* lines 266-267
vs_resample_bg ==
    /\ pc = "vs_resample_bg"
    /\ bg_img' = [bg_img EXCEPT !.img = resample_to_self(bg_img.img)]
    /\ events' = Append(events, "resample_bg")
    /\ pc' = "vs_resample_stat"
    /\ UNCHANGED <<entry, input_dims, ret, result, tiled, d2sVars, ssVars, stat_map_img, bg_min, bg_max,
                   black_bg, colorbar, v_vmin, v_vmax, v_threshold, value>>

\* lines 268-269
vs_resample_stat ==
    /\ pc = "vs_resample_stat"
    /\ stat_map_img' = resample_to_img(stat_map_img, bg_img.img)
    /\ events' = Append(events, "resample_overlay")
    /\ pc' = "vs_call_bg"
    /\ UNCHANGED <<entry, input_dims, ret, result, tiled, d2sVars, ssVars, bg_img, bg_min, bg_max,
                   black_bg, colorbar, v_vmin, v_vmax, v_threshold, value>>

\* line 271
vs_nobg_resample ==
    /\ pc = "vs_nobg_resample"
    /\ stat_map_img' = resample_to_self(stat_map_img)
    /\ events' = Append(events, "resample_overlay")
    /\ pc' = "vs_nobg_new_bg"
    /\ UNCHANGED <<entry, input_dims, ret, result, tiled, d2sVars, ssVars, bg_img, bg_min, bg_max,
                   black_bg, colorbar, v_vmin, v_vmax, v_threshold, value>>

\* lines 272-275
vs_nobg_new_bg ==
    /\ pc = "vs_nobg_new_bg"
    /\ bg_img' = [bg_img EXCEPT !.img = new_img_like_zeros(stat_map_img)]
    /\ black_bg' = FALSE
    /\ bg_min' = Num(0)
    /\ bg_max' = Num(0)
    /\ events' = Append(events, "resolve_bg")
    /\ pc' = "vs_call_bg"
    /\ UNCHANGED <<entry, input_dims, ret, result, tiled, d2sVars, ssVars, stat_map_img,
                   colorbar, v_vmin, v_vmax, v_threshold, value>>

\* lines 277-288: the call save_sprite(bg_img, bg_sprite, cmap='gray',
\* format='jpg', resample=False, vmin=bg_min, vmax=bg_max)
vs_call_bg ==
    /\ pc = "vs_call_bg"
    /\ img' = bg_img.img
    /\ resample' = FALSE
    /\ vmin' = bg_min /\ vmax' = bg_max
    /\ threshold' = None
    /\ output_json' = "None" /\ output_cmap' = "None"
    /\ ret' = "vs_bg"
    /\ pc' = "ss_check"
    /\ UNCHANGED <<entry, input_dims, result, events, tiled, d2sVars, mask, warned, sinks, handle,
                   vsVars, value>>

\* lines 289-314: the call save_sprite(stat_map_img, stat_map_sprite, stat_map_cm,
\* stat_map_json, vmax, vmin, cmap, threshold, n_colors, 'png', False)
vs_call_stat ==
    /\ pc = "vs_call_stat"
    /\ img' = stat_map_img
    /\ resample' = FALSE
    /\ vmin' = v_vmin /\ vmax' = v_vmax
    /\ threshold' = v_threshold
    /\ output_json' = "sink"
    /\ output_cmap' = IF colorbar THEN "sink" ELSE "None"
    /\ ret' = "vs_stat"
    /\ pc' = "ss_check"
    /\ UNCHANGED <<entry, input_dims, result, events, tiled, d2sVars, mask, warned, sinks, handle,
                   vsVars, value>>

\* lines 316-328
vs_finish ==
    /\ pc = "vs_finish"
    /\ result' = "ok"
    /\ pc' = "done"
    /\ UNCHANGED <<entry, input_dims, ret, events, tiled, d2sVars, ssVars, vsVars, value>>

----------------------------------------------------------------------------
Init == InitData2Sprite \/ InitValidate \/ InitSaveSprite \/ InitViewStatMap

Next ==
    \/ d2s_alloc \/ d2s_iter \/ d2s_return
    \/ validate
    \/ ss_check \/ ss_load \/ ss_params \/ ss_tile \/ ss_mask \/ ss_imsave
    \/ ss_json \/ ss_cmap \/ ss_return
    \/ vs_check \/ vs_load_anat \/ vs_resample_bg \/ vs_resample_stat
    \/ vs_nobg_resample \/ vs_nobg_new_bg \/ vs_call_bg \/ vs_call_stat \/ vs_finish

Spec == Init /\ [][Next]_vars

----------------------------------------------------------------------------
(* Properties *)

\* the states in which sprite is the finished tiling of data
TilerDone ==
    \/ entry = "data2sprite" /\ pc = "done"
    \/ pc \in {"ss_mask", "ss_imsave", "ss_json", "ss_cmap"}

\* the number of columns of the grid, read off the sprite
GridCols == sprite.shape[2] \div data.shape[2]

\* C1, as claimed: slice xx lies in the grid cell at row xx div ncols, column
\* xx mod ncols, and the sprite pixel at (row*nz + k, col*ny + j) equals
\* data[xx, ny-1-j, k]: the y axis reversed.
C1_TileYReversed ==
    TilerDone =>
        \A p \in DOMAIN data.v :
            LET ny == data.shape[2]
                nz == data.shape[3]
                row == p[1] \div GridCols
                col == p[1] % GridCols
            IN sprite.v[<<row * nz + p[3], col * ny + p[2]>>]
                   = data.v[<<p[1], ny - 1 - p[2], p[3]>>]

\* C1, amended: slice xx lies in the grid cell at row xx div ncols, column
\* xx mod ncols, and the sprite pixel at (row*nz + k, col*ny + j) equals
\* data[xx, j, nz-1-k]: the z axis reversed, then the slice transposed.
C1_TileZReversed ==
    TilerDone =>
        \A p \in DOMAIN data.v :
            LET ny == data.shape[2]
                nz == data.shape[3]
                row == p[1] \div GridCols
                col == p[1] % GridCols
            IN sprite.v[<<row * nz + p[3], col * ny + p[2]>>]
                   = data.v[<<p[1], p[2], nz - 1 - p[3]>>]

\* a finished tiling of a 3x2x2 volume of distinct voxels: the top-left pixel
\* of the first tile holds data[0, 0, 1], which differs from data[0, 1, 0]
C1_Witness ==
    /\ entry = "data2sprite" /\ pc = "done"
    /\ data.shape = <<3, 2, 2>>
    /\ sprite.v[<<0, 0>>] = data.v[<<0, 0, 1>>]
    /\ sprite.v[<<0, 0>>] # data.v[<<0, 1, 0>>]
    /\ sprite.v[<<3, 1>>] = data.v[<<2, 1, 0>>]

\* C2: the grid has nrows = ceil(sqrt(nx)) rows and ncols = ceil(nx/nrows)
\* columns, the sprite has shape exactly (nrows*nz, ncols*ny), and every pixel
\* of a grid cell whose row-major index is >= nx is zero.
C2_GridShapeAndPadding ==
    TilerDone =>
        LET nx == data.shape[1]
            ny == data.shape[2]
            nz == data.shape[3]
        IN \E nrows \in 1..nx, ncols \in 1..nx :
              /\ (nrows - 1) * (nrows - 1) < nx /\ nx <= nrows * nrows
              /\ (ncols - 1) * nrows < nx /\ nx <= ncols * nrows
              /\ sprite.shape = <<nrows * nz, ncols * ny>>
              /\ DOMAIN sprite.v = Idx2(<<nrows * nz, ncols * ny>>)
              /\ \A q \in DOMAIN sprite.v :
                    (q[1] \div nz) * ncols + (q[2] \div ny) >= nx => sprite.v[q] = Num(0)

\* five slices of non-zero voxels in a 3x2 grid: the sixth cell is zero
C2_Witness ==
    /\ entry = "data2sprite" /\ pc = "done"
    /\ data.shape = <<5, 2, 2>>
    /\ \A p \in DOMAIN data.v : data.v[p] # Num(0)
    /\ sprite.shape = <<6, 4>>
    /\ sprite.v[<<5, 3>>] = Num(0)
    /\ sprite.v[<<5, 1>>] # Num(0)

\* the states in which mask is the mask of sprite under the resolved threshold
MaskDone == pc \in {"ss_imsave", "ss_json", "ss_cmap", "ss_return"}

\* C3, as claimed: no threshold masks nothing; a zero threshold masks exactly
\* the zero pixels; any other threshold masks exactly the pixels strictly
\* inside (-threshold, +threshold), so |v| = threshold is not masked.
C3_MaskOpenInterval ==
    MaskDone =>
        \A q \in DOMAIN sprite.v :
            mask.v[q] = CASE IsNone(threshold) -> FALSE
                          [] IsNum(threshold) /\ threshold.v = 0 -> sprite.v[q].v = 0
                          [] OTHER -> -threshold.v < sprite.v[q].v /\ sprite.v[q].v < threshold.v

\* C3, amended: no threshold masks nothing; a zero threshold masks exactly the
\* zero pixels; any other threshold masks exactly the pixels with
\* |v| <= |threshold|, the bounds -threshold and +threshold included.
C3_MaskClosedInterval ==
    MaskDone =>
        \A q \in DOMAIN sprite.v :
            mask.v[q] = CASE IsNone(threshold) -> FALSE
                          [] IsNum(threshold) /\ threshold.v = 0 -> sprite.v[q].v = 0
                          [] OTHER -> Abs(sprite.v[q].v) <= Abs(threshold.v)

\* threshold 1.0 over the pixels 1.0 and 2.0: the first is masked, the second not
C3_Witness ==
    /\ entry = "save_sprite" /\ pc = "ss_imsave"
    /\ threshold = Num(Unit)
    /\ \E q \in DOMAIN sprite.v : sprite.v[q] = Num(Unit) /\ mask.v[q]
    /\ \E q \in DOMAIN sprite.v : sprite.v[q] = Num(2 * Unit) /\ ~mask.v[q]

\* the voxel values of the image save_sprite reads, NaN replaced by zero
SubstitutedValues == {IF isnan(x) THEN 0 ELSE x.v : x \in Values(img.arr)}

\* C4, the step that resolves the range: a supplied non-NaN vmin or vmax is
\* kept; an absent or NaN one becomes the minimum (maximum) of the data after
\* NaN substitution; the warning is emitted iff a supplied value was NaN; the
\* resolved values are not NaN and the run goes on.
C4_ResolveStep ==
    pc = "ss_params" =>
        /\ vmin' = IF IsNum(vmin) THEN vmin ELSE Num(SetMin(SubstitutedValues))
        /\ vmax' = IF IsNum(vmax) THEN vmax ELSE Num(SetMax(SubstitutedValues))
        /\ warned' = (isnan(vmin) \/ isnan(vmax))
        /\ IsNum(vmin') /\ IsNum(vmax')
        /\ pc' = "ss_tile" /\ result' = "none"

\* C4, the use of the resolved range: it is not changed before the sprite is
\* encoded with it and the metadata written with it.
C4_UseStep ==
    /\ pc \in {"ss_tile", "ss_mask", "ss_imsave", "ss_json", "ss_cmap"} =>
          vmin' = vmin /\ vmax' = vmax
    /\ pc = "ss_imsave" =>
          LET e == sinks'.sprite[Len(sinks'.sprite)]
          IN e.vmin = vmin /\ e.vmax = vmax /\ IsNum(vmin) /\ IsNum(vmax)
    /\ pc = "ss_json" /\ Len(sinks'.json) > Len(sinks.json) =>
          LET j == sinks'.json[Len(sinks'.json)]
          IN j.min = vmin /\ j.max = vmax /\ IsNum(vmin) /\ IsNum(vmax)

\* C4: for every combination of supplied vmin and vmax (absent, NaN, a number),
\* a number is used unchanged, an absent or NaN value is replaced by the
\* nan-safe min or max of the substituted data, a warning is emitted iff a NaN
\* was supplied, and the range used for encoding and metadata is never NaN.
C4_RangeResolution == [][C4_ResolveStep /\ C4_UseStep]_vars

\* vmin = NaN and vmax = 1.0 supplied over data with minimum -2.0: warned, and
\* the metadata written with min = -2.0 and max = 1.0
C4_Witness ==
    /\ entry = "save_sprite" /\ pc = "done" /\ result = "ok"
    /\ warned
    /\ Len(sinks.json) = 1
    /\ sinks.json[1].min = Num(-2 * Unit)
    /\ sinks.json[1].max = Num(Unit)
    /\ sinks.sprite[1].vmin = Num(-2 * Unit)

\* was a background passed to view_stat_map?
BgSupplied == entry = "view_stat_map" /\ bg_img.kind \in {"MNI152", "img"}

\* C5: with a background supplied, the grid (shape and affine) of the overlay
\* volume that is tiled equals the grid of the background volume that is
\* tiled; save_sprite resamples neither of them again.
C5_OverlayOnBackgroundGrid ==
    BgSupplied =>
        /\ Len(tiled) >= 1 => tiled[1] = Grid(bg_img.img)
        /\ Len(tiled) >= 2 => tiled[2] = tiled[1] /\ tiled[2] = Grid(stat_map_img)
        /\ \A n \in 1..Len(events) : events[n] # "resample"
        /\ pc = "done" /\ result = "ok" => Len(tiled) = 2

\* a finished run over a given background of anisotropic voxels, whose
\* resampled grid is 3x2x1 at unit voxel size
C5_Witness ==
    /\ entry = "view_stat_map" /\ pc = "done" /\ result = "ok"
    /\ bg_img.kind = "img"
    /\ Len(tiled) = 2
    /\ tiled[2] = [shape |-> <<3, 2, 1>>, affine |-> Affine(1, 1, 1)]
    /\ sinks.json[1].nbSlice = [X |-> 3, Y |-> 2, Z |-> 1]

\* the volume the caller passed (img of save_sprite, stat_map_img of
\* view_stat_map) is neither 3D nor 4D with a single volume
NotReducibleInput ==
    /\ entry \in {"save_sprite", "view_stat_map"}
    /\ ~(input_dims[1] = 3 \/ (input_dims[1] = 4 /\ input_dims[2] = 1))

\* C6: a volume not reducible to 3 dimensions makes view_stat_map and
\* save_sprite fail before any resampling, tiling or encoding and before
\* anything is written to a sink or file.
C6_FailsBeforeAnyWork ==
    NotReducibleInput =>
        /\ pc \in {"ss_check", "vs_check", "done"}
        /\ pc = "done" => result = "error"
        /\ result # "ok"
        /\ events = <<>> /\ tiled = <<>>
        /\ sinks = [sprite |-> <<>>, json |-> <<>>, cmap |-> <<>>]
        /\ handle = "none"
        /\ sprite = NoSprite

\* a 4D image of two volumes passed to save_sprite with resampling and a JSON path
C6_Witness ==
    /\ entry = "save_sprite" /\ pc = "done" /\ result = "error"
    /\ input_dims = <<4, 2>> /\ img.nd = 4 /\ img.nt = 2
    /\ resample /\ output_json = "path" /\ output_cmap = "sink"

\* C7: given a path for output_json, no handle save_sprite opened is still
\* open when the call ends, whether it returns or the write fails: the call
\* closed it.
C7_HandleClosedOnExit ==
    entry = "save_sprite" /\ pc = "done" /\ output_json = "path" =>
        handle \in {"none", "closed"}

\* the compositor stages of a run, in order
StageOf(e) == e \in {"resolve_bg", "resample_bg", "resample_overlay", "encode"}
Stages == SelectSeq(events, StageOf)

ViewDone == entry = "view_stat_map" /\ pc = "done" /\ result = "ok"

\* C8, as claimed: every completed run, with or without a background, resolves
\* the background, resamples it, then resamples the overlay, then encodes both.
C8_StagesSameOrder ==
    ViewDone =>
        Stages = <<"resolve_bg", "resample_bg", "resample_overlay", "encode", "encode">>

\* C8, amended: with a background the stages are resolve background, resample
\* background, resample overlay, encode both; without one the overlay is
\* resampled first, the background is then synthesized and never resampled;
\* no encoding precedes a resampling step.
C8_StagesPerBranch ==
    /\ ViewDone /\ bg_img.kind \in {"MNI152", "img"} =>
          Stages = <<"resolve_bg", "resample_bg", "resample_overlay", "encode", "encode">>
    /\ ViewDone /\ bg_img.kind \in {"None", "False"} =>
          Stages = <<"resample_overlay", "resolve_bg", "encode", "encode">>
    /\ entry = "view_stat_map" =>
          \A m, n \in 1..Len(events) :
              events[m] = "encode" /\ events[n] \in {"resample_bg", "resample_overlay", "resample"}
                  => n < m

\* a finished run without a background
C8_Witness ==
    /\ ViewDone /\ bg_img.kind = "False"
    /\ Stages = <<"resample_overlay", "resolve_bg", "encode", "encode">>
    /\ bg_img.img.arr.shape = stat_map_img.arr.shape

Isotropic(A) == A[1][1] = A[2][2] /\ A[2][2] = A[3][3]

\* C9: the metadata written describes the volume that was tiled: nbSlice is
\* its shape after the optional resampling, min and max are the range the
\* sprite was encoded with, affine is that volume's 4x4 affine; with
\* output_json None nothing is written.
C9_MetadataOfTiledVolume ==
    /\ Len(sinks.json) >= 1 =>
          LET j == sinks.json[Len(sinks.json)]
              g == tiled[Len(tiled)]
              e == sinks.sprite[Len(sinks.sprite)]
          IN /\ <<j.nbSlice.X, j.nbSlice.Y, j.nbSlice.Z>> = g.shape
             /\ j.affine = g.affine
             /\ Len(j.affine) = 4 /\ \A r \in 1..4 : Len(j.affine[r]) = 4
             /\ j.min = e.vmin /\ j.max = e.vmax
             /\ (entry = "save_sprite" /\ resample) => Isotropic(j.affine)
    /\ (entry = "save_sprite" /\ output_json = "None") => sinks.json = <<>>

\* a 3x1x2 volume of 1x2x3 voxels, resampled to 3x1x4 unit voxels and written
C9_Witness ==
    /\ entry = "save_sprite" /\ pc = "done" /\ result = "ok"
    /\ resample /\ output_json = "sink"
    /\ Len(sinks.json) = 1
    /\ sinks.json[1].nbSlice = [X |-> 3, Y |-> 1, Z |-> 4]
    /\ sinks.json[1].affine = Affine(1, 1, 1)
    /\ sinks.json[1].min = Num(Unit)

\* C10: validate accepts a value iff it is a dict holding 'x', 'y' and 'z',
\* each mapped to an integer.
C10_AcceptsIffIntegerPoint ==
    entry = "validate" /\ pc = "done" =>
        (result = "ok") =
            (/\ value.isdict
             /\ {"x", "y", "z"} \subseteq DOMAIN value.d
             /\ \A a \in {"x", "y", "z"} : value.d[a] \in {"int", "bool"})
====
